---- MODULE Spec2Model ----
(***************************************************************************)
(* Model of the collection-log dependency resolver                         *)
(* (src/clog_dependency_builder.py): the DependencyResolver class with its *)
(* recipe graph, variant linker and memoised minimum-dependency search.    *)
(*                                                                         *)
(* Item names are sequences of tokens: a stem followed by the suffixes of  *)
(* VARIANT_PATTERNS (<<"a", " (l)">> is the string "a (l)").  str.endswith *)
(* and slicing by a pattern suffix are then operations on the last tokens. *)
(* An upper-case stem models a display name that str.lower() changes.      *)
(***************************************************************************)
EXTENDS Integers, Sequences, FiniteSets, TLC

VARIABLES
    phase,            \* "new" after __init__, "ready" after build_recipe_graph
    clog_items,       \* Dict[int, Item] in insertion order: Seq of [id, name]
    clog_names,       \* lower-case catalog name -> id
    recipes_by_item,  \* ordered dict: Seq of [key, val], val a Seq of recipes
    all_ids,          \* name universe handed to the linker: name -> ids
    min_dep_cache,    \* _min_dep_cache: name -> [deps, idx]
    op,               \* the last top-level operation and its argument
    ret,              \* what the last build_variant_relationships run did
    links,            \* number of build_variant_relationships runs so far
    calls,            \* number of top-level queries so far
    primary_ids,      \* name -> primary id, as fetch_all_items returns it
    output            \* what generate_output_json wrote, once it has run

vars == <<phase, clog_items, clog_names, recipes_by_item, all_ids,
          min_dep_cache, op, ret, links, calls, primary_ids, output>>

----------------------------------------------------------------------------
(* Bounds of the model *)

MaxRecords == 4      \* production records handed to build_recipe_graph
MaxCatalog == 2      \* entries of the catalog
MaxCalls == 1        \* top-level queries issued on one resolver
MaxLinks == 1        \* runs of build_variant_relationships on one resolver
StackLimit == 9      \* nested find_minimum_clog_dependencies frames allowed
MaxManual == 2       \* records of manual_recipes.json

----------------------------------------------------------------------------
(* Names *)

LowerTok(t) ==
    CASE t = "A" -> "a"
      [] t = "C" -> "c"
      [] OTHER -> t

\* str.lower() on a name
Lower(n) == [i \in DOMAIN n |-> LowerTok(n[i])]

A_  == <<"a">>
AL  == <<"a", " (l)">>
AI  == <<"a", " (inactive)">>
X_  == <<"x">>
C_  == <<"c">>
D_  == <<"d">>

\* the lower-case item names of the model
Names == {A_, AL, AI, X_, C_, D_}

\* the names a caller may ask for
QueryNames == Names \cup {<<"C">>}

----------------------------------------------------------------------------
(* Python containers *)

\* dict as an insertion-ordered sequence of [key, val]
DictKeys(d) == [i \in DOMAIN d |-> d[i].key]
DictHas(d, k) == \E i \in DOMAIN d : d[i].key = k
DictIdx(d, k) == CHOOSE i \in DOMAIN d : d[i].key = k
DictGet(d, k, dflt) == IF DictHas(d, k) THEN d[DictIdx(d, k)].val ELSE dflt
DictSet(d, k, v) ==
    IF DictHas(d, k)
    THEN [d EXCEPT ![DictIdx(d, k)].val = v]
    ELSE Append(d, [key |-> k, val |-> v])

InSeq(e, s) == \E i \in DOMAIN s : s[i] = e

----------------------------------------------------------------------------
(* VARIANT_PATTERNS: (base_suffix, variant_suffix), in table order *)

VARIANT_PATTERNS == <<
    << <<" (uncharged)">>,    <<>> >>,
    << <<" (u)">>,            <<>> >>,
    << <<" (uncharged)">>,    <<" of the dead">> >>,
    << <<" (10)">>,           <<>> >>,
    << <<>>,                  <<" (l)">> >>,
    << <<>>,                  <<" (locked)">> >>,
    << <<>>,                  <<" (broken)">> >>,
    << <<>>,                  <<" (damaged)">> >>,
    << <<" (inactive)">>,     <<>> >>,
    << <<>>,                  <<" (inactive)">> >>,
    << <<" (empty)">>,        <<>> >>,
    << <<>>,                  <<" (s)">> >>,
    << <<" (disassembled)">>, <<>> >>,
    << <<>>,                  <<" 0">> >>,
    << <<>>,                  <<" 25">> >>,
    << <<>>,                  <<" 50">> >>,
    << <<>>,                  <<" 75">> >>,
    << <<>>,                  <<" 100">> >> >>

\* str.endswith
EndsWith(n, suf) ==
    /\ Len(n) >= Len(suf)
    /\ SubSeq(n, Len(n) - Len(suf) + 1, Len(n)) = suf

----------------------------------------------------------------------------
(* The resolver.  An operator that runs resolver code takes the resolver   *)
(* object `self` as a record and returns it with the fields it changed:    *)
(*   clog_names, recipes_by_item, cache (_min_dep_cache),                  *)
(*   raised   : a RecursionError was raised and is propagating,            *)
(*   maxdepth : deepest nesting of find_minimum_clog_dependencies so far,  *)
(*   log      : the evaluations that ran the recipe loop, as               *)
(*              [name, evals, total, idx, deps], evals the alternatives'   *)
(*              sets in the order they were computed, total the number of  *)
(*              alternatives the name had,                                 *)
(*   events   : the variant rules that fired, in order, as                 *)
(*              [base, variant, kind, before, after, cached,               *)
(*              cached_after] (the variant's recipes and whether it is     *)
(*              cached, before and after the rule), and once the call for  *)
(*              the base has returned, final: the variant's recipes at     *)
(*              that moment.                                               *)
(***************************************************************************)

Resolver(names, recipes, cache) ==
    [clog_names |-> names, recipes_by_item |-> recipes, cache |-> cache,
     raised |-> FALSE, maxdepth |-> 0, log |-> {}, events |-> <<>>]

CacheHas(self, n) == n \in DOMAIN self.cache

\* a memo write that also touches recipes_by_item[n], which on a
\* defaultdict creates an empty entry for an unknown name
CachePutTouching(self, n, deps, idx) ==
    [self EXCEPT
        !.cache = (n :> [deps |-> deps, idx |-> idx]) @@ self.cache,
        !.recipes_by_item = DictSet(@, n, DictGet(@, n, <<>>))]

CachePut(self, n, deps, idx) ==
    [self EXCEPT !.cache = (n :> [deps |-> deps, idx |-> idx]) @@ self.cache]

\* line 615: the memo is consulted before anything else
CacheHit(self, n) == CacheHas(self, n)

\* a cycle guard that never fires
OnPathNever(n, visited) == FALSE

\* line 619 / line 585: the name is already on the current call chain
OnPath(n, visited) == n \in visited

\* line 624: catalog membership short-circuits resolution
IsClog(self, n) == n \in DOMAIN self.clog_names

\* a comparison that lets a later alternative of equal size win
ImprovesOnTie(recipe_deps, min_deps, min_idx) ==
    min_idx = -1 \/ Cardinality(recipe_deps) <= Cardinality(min_deps)

\* line 644: the alternative replaces the best one seen so far
\* (min_idx = -1 stands for min_deps is None)
Improves(recipe_deps, min_deps, min_idx) ==
    min_idx = -1 \/ Cardinality(recipe_deps) < Cardinality(min_deps)

\* line 649: early exit on a clog-free alternative
EarlyExit(recipe_deps) == Cardinality(recipe_deps) = 0

\* a lookup that falls back to the recipes of the stem of the name
RecipesOfStem(self, n) ==
    IF DictHas(self.recipes_by_item, n)
    THEN DictGet(self.recipes_by_item, n, <<>>)
    ELSE DictGet(self.recipes_by_item, <<n[1]>>, <<>>)

\* a lookup that hands a name without recipes those of the first key
RecipesOfFirstKey(self, n) ==
    IF DictHas(self.recipes_by_item, n) \/ self.recipes_by_item = <<>>
    THEN DictGet(self.recipes_by_item, n, <<>>)
    ELSE self.recipes_by_item[1].val

\* line 630: recipes_by_item.get(item_name_lower, [])
RecipesOf(self, n) == DictGet(self.recipes_by_item, n, <<>>)

RECURSIVE find_minimum_clog_dependencies(_, _, _, _)
RECURSIVE MaterialLoop(_, _, _, _, _, _)
RECURSIVE RecipeLoop(_, _, _, _, _, _, _, _, _)

\* lines 581-596: the loop over the materials of one recipe, from index i
MaterialLoop(self, materials, i, visited, dependencies, depth) ==
    IF self.raised \/ i > Len(materials)
    THEN [deps |-> dependencies, self |-> self]
    ELSE LET material_lower == Lower(materials[i]) IN
         IF OnPath(material_lower, visited)
         THEN MaterialLoop(self, materials, i + 1, visited, dependencies, depth)
         ELSE LET own == IF IsClog(self, material_lower)
                         THEN {self.clog_names[material_lower]} ELSE {}
                  r == find_minimum_clog_dependencies(self, material_lower,
                                                      visited, depth + 1)
              IN  MaterialLoop(r.self, materials, i + 1, visited,
                               dependencies \cup own \cup r.deps, depth)

\* lines 570-596
find_clog_dependencies_for_recipe(self, materials, visited, depth) ==
    MaterialLoop(self, materials, 1, visited, {}, depth)

\* lines 641-654: the loop over the alternatives, from index idx (1-based
\* here, 0-based in the cache, as in the source)
RecipeLoop(self, name, recipes, idx, visited, min_deps, min_idx, evals, depth) ==
    IF self.raised
    THEN [deps |-> {}, self |-> self]
    ELSE IF idx > Len(recipes)
    THEN [deps |-> min_deps,
          self |-> [CachePut(self, name, min_deps, min_idx) EXCEPT
                      !.log = @ \cup {[name |-> name, evals |-> evals,
                                       total |-> Len(recipes),
                                       idx |-> min_idx, deps |-> min_deps]}]]
    ELSE LET r == find_clog_dependencies_for_recipe(self, recipes[idx],
                                                    visited, depth)
             ev == Append(evals, r.deps)
         IN  IF Improves(r.deps, min_deps, min_idx)
             THEN IF EarlyExit(r.deps)
                  THEN RecipeLoop(r.self, name, recipes, Len(recipes) + 1,
                                  visited, r.deps, idx - 1, ev, depth)
                  ELSE RecipeLoop(r.self, name, recipes, idx + 1, visited,
                                  r.deps, idx - 1, ev, depth)
             ELSE RecipeLoop(r.self, name, recipes, idx + 1, visited,
                             min_deps, min_idx, ev, depth)

\* lines 598-654; depth is the nesting of this frame (1 for a top-level call)
find_minimum_clog_dependencies(self, item_name, visited, depth) ==
    LET item_name_lower == Lower(item_name)
        s0 == [self EXCEPT !.maxdepth = IF depth > @ THEN depth ELSE @]
    IN  IF self.raised THEN [deps |-> {}, self |-> self]
        ELSE IF depth > StackLimit
        THEN [deps |-> {}, self |-> [s0 EXCEPT !.raised = TRUE]]
        ELSE IF CacheHit(s0, item_name_lower)
        THEN [deps |-> s0.cache[item_name_lower].deps, self |-> s0]
        ELSE IF OnPath(item_name_lower, visited)
        THEN [deps |-> {}, self |-> s0]
        ELSE IF IsClog(s0, item_name_lower)
        THEN [deps |-> {s0.clog_names[item_name_lower]},
              self |-> CachePut(s0, item_name_lower,
                                {s0.clog_names[item_name_lower]}, 0)]
        ELSE LET recipes == RecipesOf(s0, item_name_lower) IN
             IF recipes = <<>>
             THEN [deps |-> {}, self |-> CachePut(s0, item_name_lower, {}, -1)]
             ELSE RecipeLoop(s0, item_name_lower, recipes, 1,
                             visited \cup {item_name_lower}, {}, -1, <<>>, depth)

RECURSIVE AllRecipesLoop(_, _, _, _)
\* lines 670-675
AllRecipesLoop(self, recipes, i, result) ==
    IF self.raised \/ i > Len(recipes)
    THEN [result |-> result, self |-> self]
    ELSE LET r == find_clog_dependencies_for_recipe(self, recipes[i], {}, 0)
         IN  AllRecipesLoop(r.self, recipes, i + 1,
                            Append(result, [materials |-> recipes[i],
                                            deps |-> r.deps]))

\* lines 665-675
get_all_recipes_with_deps(self, item_name) ==
    AllRecipesLoop(self, DictGet(self.recipes_by_item, Lower(item_name), <<>>),
                   1, <<>>)

----------------------------------------------------------------------------
(* The variant linker *)

\* lines 523-532: the candidate variant name of a pattern, <<>> when the
\* base name does not end with the pattern's base suffix
VariantName(base_name, pat) ==
    IF pat[1] # <<>>
    THEN IF ~EndsWith(base_name, pat[1])
         THEN <<>>
         ELSE SubSeq(base_name, 1, Len(base_name) - Len(pat[1])) \o pat[2]
    ELSE base_name \o pat[2]

\* a check that does not look the variant up in the name universe
RuleFiresUnknown(self, base_name, variant_name, ids) ==
    /\ variant_name # <<>>
    /\ variant_name \notin DOMAIN self.clog_names
    /\ variant_name # base_name

\* lines 534-544: the three checks a candidate has to pass
RuleFires(self, base_name, variant_name, ids) ==
    /\ variant_name # <<>>
    /\ variant_name \in DOMAIN ids
    /\ variant_name \notin DOMAIN self.clog_names
    /\ variant_name # base_name

\* lines 549-553
HasBase(recipes, base_name) ==
    \E i \in DOMAIN recipes : InSeq(base_name, recipes[i])

\* an append that reaches the first recipe only
AppendBaseToFirst(recipes, base_name) ==
    [i \in DOMAIN recipes |->
        IF i = 1 THEN Append(recipes[i], base_name) ELSE recipes[i]]

\* lines 557-558
AppendBase(recipes, base_name) ==
    [i \in DOMAIN recipes |-> Append(recipes[i], base_name)]

\* lines 560-561
Invalidate(cache, variant_name) ==
    [n \in (DOMAIN cache) \ {variant_name} |-> cache[n]]

\* line 565: adding a virtual recipe leaves _min_dep_cache as it is
KeepCache(cache, variant_name) == cache

\* lines 546-566: what one firing rule does to the resolver
ApplyRule(self, base_name, variant_name) ==
    LET before == DictGet(self.recipes_by_item, variant_name, <<>>)
        ev(kind, after, cache) ==
            [base |-> base_name, variant |-> variant_name,
             kind |-> kind, before |-> before, after |-> after,
             cached |-> CacheHas(self, variant_name),
             cached_after |-> variant_name \in DOMAIN cache]
    IN  IF DictHas(self.recipes_by_item, variant_name)
        THEN IF ~HasBase(before, base_name)
             THEN [self EXCEPT
                     !.recipes_by_item =
                         DictSet(@, variant_name, AppendBase(before, base_name)),
                     !.cache = Invalidate(@, variant_name),
                     !.events = Append(@, ev("updated",
                                             AppendBase(before, base_name),
                                             Invalidate(self.cache,
                                                        variant_name)))]
             ELSE [self EXCEPT
                     !.events = Append(@, ev("kept", before, self.cache))]
        ELSE [self EXCEPT
                !.recipes_by_item = DictSet(@, variant_name, <<<<base_name>>>>),
                !.cache = KeepCache(@, variant_name),
                !.events = Append(@, ev("added", <<<<base_name>>>>,
                                        KeepCache(self.cache, variant_name)))]

RECURSIVE PatternLoop(_, _, _, _)
\* lines 521-566: the loop over VARIANT_PATTERNS, from index i
PatternLoop(self, base_name, ids, i) ==
    IF i > Len(VARIANT_PATTERNS) THEN self
    ELSE LET variant_name == VariantName(base_name, VARIANT_PATTERNS[i]) IN
         IF RuleFires(self, base_name, variant_name, ids)
         THEN PatternLoop(ApplyRule(self, base_name, variant_name),
                          base_name, ids, i + 1)
         ELSE PatternLoop(self, base_name, ids, i + 1)

\* lines 508-568
process_variant_patterns(self, base_name, ids) ==
    LET s1 == PatternLoop([self EXCEPT !.events = <<>>], base_name, ids, 1)
        done == [i \in DOMAIN s1.events |->
                    [base |-> s1.events[i].base,
                     variant |-> s1.events[i].variant,
                     kind |-> s1.events[i].kind,
                     before |-> s1.events[i].before,
                     after |-> s1.events[i].after,
                     cached |-> s1.events[i].cached,
                     cached_after |-> s1.events[i].cached_after,
                     final |-> DictGet(s1.recipes_by_item,
                                       s1.events[i].variant, <<>>)]]
    IN  [s1 EXCEPT !.events = self.events \o done]

RECURSIVE Phase1Loop(_, _, _, _)
\* lines 476-480
Phase1Loop(self, items, ids, i) ==
    IF i > Len(items) THEN self
    ELSE Phase1Loop(process_variant_patterns(self, Lower(items[i].name), ids),
                    items, ids, i + 1)

\* lines 489-492: the snapshot of the non-catalog keys
derived_items_to_check(self) ==
    SelectSeq(DictKeys(self.recipes_by_item),
              LAMBDA n : n \notin DOMAIN self.clog_names)

RECURSIVE Phase2Loop(_, _, _, _, _)
\* lines 494-500; bases collects the names the rules were run for
Phase2Loop(self, todo, ids, i, bases) ==
    IF self.raised \/ i > Len(todo) THEN [self |-> self, bases |-> bases]
    ELSE LET r == find_minimum_clog_dependencies(self, todo[i], {}, 1) IN
         IF r.deps # {} /\ ~r.self.raised
         THEN Phase2Loop(process_variant_patterns(r.self, todo[i], ids),
                         todo, ids, i + 1, Append(bases, todo[i]))
         ELSE Phase2Loop(r.self, todo, ids, i + 1, bases)

\* lines 458-506
build_variant_relationships(self, items, ids) ==
    LET p1 == Phase1Loop(self, items, ids, 1)
    IN  Phase2Loop(p1, derived_items_to_check(p1), ids, 1, <<>>)

----------------------------------------------------------------------------
(* The output projector.  An Optional value is <<>> for None and <<v>> for *)
(* the value v, so that None and the empty list stay apart.                *)

None == <<>>
Some(v) == <<v>>

Ascending(s) == SortSeq(s, LAMBDA p, q : p < q)

RECURSIVE ListOfSet(_)
\* list(min_deps) at line 931: CPython walks a set of small ints in
\* ascending order
ListOfSet(S) ==
    IF S = {} THEN <<>>
    ELSE LET m == CHOOSE v \in S : \A w \in S : v <= w
         IN  <<m>> \o ListOfSet(S \ {m})

\* a filter that stops at the first catalog-named material
first_clog_material(resolver, recipe_materials) ==
    LET hits == SelectSeq(recipe_materials,
                          LAMBDA m : Lower(m) \in DOMAIN resolver.clog_names)
    IN  IF hits = <<>> THEN <<>>
        ELSE <<resolver.clog_names[Lower(hits[1])]>>

\* lines 828-832: the ids of the materials of one alternative that are
\* catalog names, in material order
clog_materials(resolver, recipe_materials) ==
    LET hits == SelectSeq(recipe_materials,
                          LAMBDA m : Lower(m) \in DOMAIN resolver.clog_names)
    IN  [j \in DOMAIN hits |-> resolver.clog_names[Lower(hits[j])]]

\* lines 811-841
find_clog_crafting_recipes(item_name_lower, resolver) ==
    LET recipes == DictGet(resolver.recipes_by_item, item_name_lower, <<>>)
        sorted == [i \in DOMAIN recipes |->
                      Ascending(clog_materials(resolver, recipes[i]))]
        clog_recipes == SelectSeq(sorted, LAMBDA r : r # <<>>)
    IN  IF clog_recipes # <<>> THEN Some(clog_recipes) ELSE None

\* a lookup that finds no id for any name
ItemIdsNone(output_name, primary, ids) == <<>>

\* lines 917-925: the ids of a derived item; primary_id 0 stands for None
ItemIds(output_name, primary, ids) ==
    LET primary_id == IF output_name \in DOMAIN primary
                      THEN primary[output_name] ELSE 0
        item_ids == IF output_name \in DOMAIN ids THEN ids[output_name] ELSE <<>>
        with_primary == IF primary_id # 0 /\ ~InSeq(primary_id, item_ids)
                        THEN <<primary_id>> \o item_ids ELSE item_ids
    IN  IF with_primary = <<>> /\ primary_id # 0
        THEN <<primary_id>> ELSE with_primary

RECURSIVE DerivedLoop(_, _, _, _, _, _)
\* lines 907-943: the loop over recipes_by_item.keys(); acc carries
\* derived_items and the three counters
DerivedLoop(resolver, keys, i, primary, ids, acc) ==
    IF i > Len(keys) \/ resolver.raised
    THEN [self |-> resolver, acc |-> acc]
    ELSE LET output_name == keys[i] IN
         IF output_name \in DOMAIN resolver.clog_names
         THEN DerivedLoop(resolver, keys, i + 1, primary, ids, acc)
         ELSE LET r == find_minimum_clog_dependencies(resolver, output_name, {}, 1)
                  item_ids == ItemIds(output_name, primary, ids)
                  item_entry == [name |-> output_name, item_ids |-> item_ids,
                                 clog_dependencies |-> ListOfSet(r.deps)]
              IN  DerivedLoop(r.self, keys, i + 1, primary, ids,
                     IF r.deps # {}
                     THEN IF item_ids # <<>>
                          THEN [acc EXCEPT
                                  !.derived_items =
                                      DictSet(@, output_name, item_entry),
                                  !.multi_id_items =
                                      IF Len(item_ids) > 1 THEN @ + 1 ELSE @]
                          ELSE [acc EXCEPT !.no_id_items = @ + 1]
                     ELSE [acc EXCEPT !.skipped_items = @ + 1])

\* lines 958-983: one entry of collectionLogItems
ClogItemEntry(item, resolver, ids, all_clog_ids) ==
    LET item_name_lower == Lower(item.name)
        bucket_ids == IF item_name_lower \in DOMAIN ids
                      THEN ids[item_name_lower] ELSE <<>>
        extra == SelectSeq(bucket_ids,
                           LAMBDA e : e # item.id /\ e \notin all_clog_ids)
    IN  [name |-> item.name,
         all_ids |-> Ascending(<<item.id>> \o extra),
         craftable_from |-> find_clog_crafting_recipes(item_name_lower, resolver)]

RECURSIVE ClogLoop(_, _, _, _, _)
\* lines 955-990: the loop over clog_items, keyed by the item id
ClogLoop(items, resolver, ids, i, clog_items_output) ==
    IF i > Len(items) THEN clog_items_output
    ELSE ClogLoop(items, resolver, ids, i + 1,
            DictSet(clog_items_output, items[i].id,
                    ClogItemEntry(items[i], resolver, ids,
                                  {items[j].id : j \in DOMAIN items})))

\* lines 880-886: the ids of one manual record leave every all_ids list
StripIds(clog_items_output, ids_to_remove) ==
    [k \in DOMAIN clog_items_output |->
        LET original == clog_items_output[k].val.all_ids
            filtered == SelectSeq(original, LAMBDA e : e \notin ids_to_remove)
        IN  IF Len(filtered) < Len(original)
            THEN [clog_items_output[k] EXCEPT !.val.all_ids = filtered]
            ELSE clog_items_output[k]]

RECURSIVE process_manual_recipes(_, _, _, _)
\* lines 864-888, from record i of manual_recipes; returns both dicts
process_manual_recipes(clog_items_output, derived_items_output, manual_recipes, i) ==
    IF i > Len(manual_recipes)
    THEN [collectionLogItems |-> clog_items_output,
          derivedItems |-> derived_items_output]
    ELSE LET item_name == manual_recipes[i].key
             recipe == manual_recipes[i].val
         IN  process_manual_recipes(
                StripIds(clog_items_output,
                         {recipe.item_ids[j] : j \in DOMAIN recipe.item_ids}),
                DictSet(derived_items_output, Lower(item_name), recipe),
                manual_recipes, i + 1)

\* lines 891-1025; manual_recipes is what load_manual_recipes() returns
generate_output_json(items, resolver, primary, ids, manual_recipes) ==
    LET d == DerivedLoop(resolver, DictKeys(resolver.recipes_by_item), 1,
                         primary, ids,
                         [derived_items |-> <<>>, skipped_items |-> 0,
                          multi_id_items |-> 0, no_id_items |-> 0])
        clog_items_output == ClogLoop(items, d.self, ids, 1, <<>>)
        m == process_manual_recipes(clog_items_output, d.acc.derived_items,
                                    manual_recipes, 1)
    IN  [self |-> d.self,
         output |->
            [collectionLogItems |-> m.collectionLogItems,
             derivedItems |-> m.derivedItems,
             stats |->
                [total_clog_items |-> Len(items),
                 total_derived_items |-> Len(m.derivedItems),
                 items_with_clog_free_recipes |-> d.acc.skipped_items,
                 derived_items_with_multiple_ids |-> d.acc.multi_id_items,
                 derived_items_without_ids |-> d.acc.no_id_items]]]

----------------------------------------------------------------------------
(* Inputs *)

Item(i, n) == [id |-> i, name |-> n]

\* the catalog entries of the model; "C" and "c" are two tracked slots that
\* share a display name up to case (cf. the comment at line 949)
CatalogPool ==
    << Item(1, <<"C">>), Item(2, C_), Item(3, D_), Item(4, A_) >>

Rec(o, m) == [output |-> o, materials |-> m]

\* the production records of the model, in corpus order
RecordPool ==
    << Rec(X_, <<AL, D_>>), Rec(X_, <<A_>>), Rec(X_, <<X_>>),
       Rec(AL, <<C_>>), Rec(AL, <<D_>>), Rec(AL, <<A_>>),
       Rec(A_, <<X_, C_>>), Rec(A_, <<X_>>), Rec(<<"A">>, <<D_>>) >>

\* lines 300-404: what fetch_all_items returns, lower-case name -> ids.
\* Catalog ids are 1..4; every list is sorted without duplicates
\* (lines 371-373, 390-391); a name whose ids all failed to parse keeps an
\* empty list and no primary id (lines 375-377).
FullIds ==
    [primary |-> (C_ :> 1) @@ (D_ :> 3) @@ (A_ :> 4) @@ (AL :> 6)
                 @@ (AI :> 7) @@ (X_ :> 8),
     all |-> (C_ :> <<1, 2>>) @@ (D_ :> <<3>>) @@ (A_ :> <<4, 5>>)
             @@ (AL :> <<6>>) @@ (AI :> <<7>>) @@ (X_ :> <<8>>)]

PartialIds ==
    [primary |-> (C_ :> 2) @@ (D_ :> 3) @@ (A_ :> 4) @@ (AL :> 7),
     all |-> (C_ :> <<2>>) @@ (D_ :> <<3>>) @@ (A_ :> <<4>>)
             @@ (AL :> <<6, 7>>) @@ (X_ :> <<>>)]

IdMaps == {FullIds, PartialIds}

Manual(n, ids, deps) ==
    [key |-> n,
     val |-> [name |-> n, item_ids |-> ids, clog_dependencies |-> deps]]

\* the records manual_recipes.json may hold, in file order
ManualPool ==
    << Manual(<<"A">>, <<5>>, <<3>>), Manual(A_, <<5, 6>>, <<1>>),
       Manual(<<"m">>, <<4, 9>>, <<>>) >>

RECURSIVE SubSeqs(_, _, _)
\* the subsequences of pool[i..] of at most k elements
SubSeqs(pool, i, k) ==
    IF i > Len(pool) \/ k = 0 THEN {<<>>}
    ELSE SubSeqs(pool, i + 1, k)
         \cup {<<pool[i]>> \o t : t \in SubSeqs(pool, i + 1, k - 1)}

Catalogs == SubSeqs(CatalogPool, 1, MaxCatalog)

Corpora == SubSeqs(RecordPool, 1, MaxRecords)

ManualFiles == SubSeqs(ManualPool, 1, MaxManual)

\* line 412: the dict comprehension keeps the last id of a lower-cased name
ClogNames(items) ==
    LET keys == {Lower(items[i].name) : i \in DOMAIN items}
        last(k) == CHOOSE i \in DOMAIN items :
                      /\ Lower(items[i].name) = k
                      /\ \A j \in DOMAIN items : Lower(items[j].name) = k => j <= i
    IN  [k \in keys |-> items[last(k)].id]

RECURSIVE BuildLoop(_, _, _)
\* lines 426-450 on records already decoded: a record without materials is
\* dropped, names are lower-cased, each record is its own alternative
BuildLoop(recipes, records, i) ==
    IF i > Len(records) THEN recipes
    ELSE LET output_name == Lower(records[i].output)
             material_names == [j \in DOMAIN records[i].materials |->
                                   Lower(records[i].materials[j])]
         IN  IF material_names # <<>>
             THEN BuildLoop(DictSet(recipes, output_name,
                                    Append(DictGet(recipes, output_name, <<>>),
                                           material_names)),
                            records, i + 1)
             ELSE BuildLoop(recipes, records, i + 1)

----------------------------------------------------------------------------
(* The state machine *)

Self == Resolver(clog_names, recipes_by_item, min_dep_cache)

NoRet == [kind |-> "none"]

NoOutput == [kind |-> "none"]

Init ==
    /\ phase = "new"
    /\ clog_items \in Catalogs
    /\ clog_names = ClogNames(clog_items)
    /\ recipes_by_item = <<>>
    /\ all_ids = FullIds.all
    /\ primary_ids = FullIds.primary
    /\ min_dep_cache = <<>>
    /\ op = <<"init">>
    /\ ret = NoRet
    /\ output = NoOutput
    /\ links = 0
    /\ calls = 0

\* build_recipe_graph(recipes), called once on a fresh resolver
BuildRecipeGraph ==
    /\ phase = "new"
    /\ \E records \in Corpora :
          recipes_by_item' = BuildLoop(recipes_by_item, records, 1)
    /\ phase' = "ready"
    /\ op' = <<"build_recipe_graph">>
    /\ ret' = NoRet
    /\ UNCHANGED <<clog_items, clog_names, all_ids, min_dep_cache, links, calls,
                   primary_ids, output>>

\* a top-level find_minimum_clog_dependencies(item_name)
Query ==
    /\ phase = "ready"
    /\ calls < MaxCalls
    /\ calls' = calls + 1
    /\ \E item_name \in QueryNames :
          LET r == find_minimum_clog_dependencies(Self, item_name, {}, 1) IN
          /\ min_dep_cache' = r.self.cache
          /\ op' = <<"find_minimum_clog_dependencies", item_name>>
    /\ UNCHANGED <<phase, clog_items, clog_names, recipes_by_item, all_ids,
                   ret, links, primary_ids, output>>

\* get_all_recipes_with_deps(item_name)
GetAll ==
    /\ phase = "ready"
    /\ calls < MaxCalls
    /\ calls' = calls + 1
    /\ \E item_name \in Names :
          LET r == get_all_recipes_with_deps(Self, item_name) IN
          /\ min_dep_cache' = r.self.cache
          /\ op' = <<"get_all_recipes_with_deps", item_name>>
    /\ UNCHANGED <<phase, clog_items, clog_names, recipes_by_item, all_ids,
                   ret, links, primary_ids, output>>

\* build_variant_relationships(primary_ids, all_ids)
Link ==
    /\ phase = "ready"
    /\ links < MaxLinks
    /\ LET r == build_variant_relationships(Self, clog_items, all_ids) IN
          /\ recipes_by_item' = r.self.recipes_by_item
          /\ min_dep_cache' = r.self.cache
          /\ ret' = [kind |-> "link", events |-> r.self.events,
                     bases |-> r.bases, raised |-> r.self.raised,
                     log |-> r.self.log, before |-> recipes_by_item]
    /\ op' = <<"build_variant_relationships">>
    /\ links' = links + 1
    /\ UNCHANGED <<phase, clog_items, clog_names, all_ids, calls,
                   primary_ids, output>>

Next == BuildRecipeGraph \/ Query \/ GetAll \/ Link

Spec == Init /\ [][Next]_vars

\* main(), lines 1040-1046: the id maps are fetched before the resolver is
\* built and handed to both the linker and the output projector
InitOutput ==
    /\ phase = "new"
    /\ clog_items \in Catalogs
    /\ clog_names = ClogNames(clog_items)
    /\ recipes_by_item = <<>>
    /\ \E m \in IdMaps : all_ids = m.all /\ primary_ids = m.primary
    /\ min_dep_cache = <<>>
    /\ op = <<"init">>
    /\ ret = NoRet
    /\ output = NoOutput
    /\ links = 0
    /\ calls = 0

\* generate_output_json(clog_items, resolver, primary_ids, all_ids), the
\* last step of main(); before keeps the graph it was handed
GenerateOutput ==
    /\ phase = "ready"
    /\ \E manual_recipes \in ManualFiles :
          LET r == generate_output_json(clog_items, Self, primary_ids, all_ids,
                                        manual_recipes)
          IN  /\ recipes_by_item' = r.self.recipes_by_item
              /\ clog_names' = r.self.clog_names
              /\ min_dep_cache' = r.self.cache
              /\ output' = [kind |-> "output",
                            collectionLogItems |-> r.output.collectionLogItems,
                            derivedItems |-> r.output.derivedItems,
                            stats |-> r.output.stats,
                            manual_recipes |-> manual_recipes,
                            raised |-> r.self.raised,
                            before |-> Self]
    /\ phase' = "done"
    /\ op' = <<"generate_output_json">>
    /\ UNCHANGED <<clog_items, all_ids, primary_ids, ret, links, calls>>

NextOutput == BuildRecipeGraph \/ Link \/ GenerateOutput

SpecOutput == InitOutput /\ [][NextOutput]_vars

----------------------------------------------------------------------------
(* Properties *)

Ready == phase = "ready"

\* what a top-level find_minimum_clog_dependencies(x) does in this state
Ask(x) == find_minimum_clog_dependencies(Self, x, {}, 1)

QueryOp == "find_minimum_clog_dependencies"
LinkOp == "build_variant_relationships"

IsClogName(n) == Lower(n) \in DOMAIN clog_names
HasRecipes(n) == DictHas(recipes_by_item, Lower(n))

\* C1: for every catalog item c, in every state of the resolver, a top-level
\* find_minimum_clog_dependencies(name(c)) returns exactly {id(c)}.
C1_CatalogItemReturnsOwnId ==
    Ready => \A i \in DOMAIN clog_items :
                Ask(clog_items[i].name).deps = {clog_items[i].id}

\* C2 as stated: every name without a RecipeSet entry resolves to the empty set.
C2_NoRecipeEntryIsEmpty ==
    Ready => \A x \in QueryNames : ~HasRecipes(x) => Ask(x).deps = {}

\* C2 (amended): every name that is not a catalog name and has no RecipeSet
\* entry resolves to the empty set; a catalog name without an entry resolves
\* to its own id.
C2_NonCatalogNoRecipeEntryIsEmpty ==
    Ready => \A x \in QueryNames :
                ~HasRecipes(x) =>
                    Ask(x).deps = IF IsClogName(x)
                                  THEN {clog_names[Lower(x)]} ELSE {}

C2_Witness ==
    /\ Ready
    /\ op[1] = QueryOp
    /\ ~HasRecipes(op[2]) /\ ~IsClogName(op[2])
    /\ \E y \in DOMAIN clog_names : HasRecipes(y)
    /\ min_dep_cache[Lower(op[2])] = [deps |-> {}, idx |-> -1]

\* C3: for every name x and every alternative r of x, the result of
\* find_minimum_clog_dependencies(x) is no larger than the set
\* get_all_recipes_with_deps(x) reports for r, whichever is called first,
\* before and after linking.  (Stated for the names that are not catalog
\* names: a catalog name resolves to its own id whatever its Recipes are.)
C3_MonotonicOptimality ==
    Ready => \A x \in Names : ~IsClogName(x) =>
        /\ LET m == Ask(x)
               a == get_all_recipes_with_deps(m.self, x)
           IN  \A i \in DOMAIN a.result :
                  Cardinality(m.deps) <= Cardinality(a.result[i].deps)
        /\ LET a == get_all_recipes_with_deps(Self, x)
               m == find_minimum_clog_dependencies(a.self, x, {}, 1)
           IN  \A i \in DOMAIN a.result :
                  Cardinality(m.deps) <= Cardinality(a.result[i].deps)

\* The names whose every alternative transitively requires a catalog item:
\* the least set R with n in R when n is no catalog name, has Recipes, and
\* each of its alternatives lists a catalog name or a name of R.  A
\* material reached only round a cycle requires nothing.
RequiresClogStep(R) ==
    {n \in Names :
        /\ ~IsClogName(n)
        /\ HasRecipes(n)
        /\ \A i \in DOMAIN DictGet(recipes_by_item, n, <<>>) :
              \E j \in DOMAIN DictGet(recipes_by_item, n, <<>>)[i] :
                 LET m == Lower(DictGet(recipes_by_item, n, <<>>)[i][j])
                 IN  IsClogName(m) \/ m \in R}

RECURSIVE RequiresClogFrom(_)
RequiresClogFrom(R) ==
    IF RequiresClogStep(R) = R THEN R ELSE RequiresClogFrom(RequiresClogStep(R))

RequiresClog == RequiresClogFrom({})

\* C4: for every name x that is no catalog name and has a Recipe, the
\* result of find_minimum_clog_dependencies(x) is non-empty exactly when every
\* alternative of x transitively requires a catalog item, whatever was asked
\* before.  (Stated for a RecipeSet the linker has not touched.)
C4_RestrictionPolicy ==
    (Ready /\ links = 0) => \A x \in Names :
                (~IsClogName(x) /\ HasRecipes(x)) =>
                    (Ask(x).deps # {} <=> x \in RequiresClog)

\* The names that can be produced from base resources and the catalog items
\* whose ids are in S: the greatest set O in which a catalog name has its id
\* in S, and any other name has no Recipe or an alternative all in O.
ProducibleStep(O, S) ==
    {n \in O :
        IF IsClogName(n) THEN clog_names[n] \in S
        ELSE \/ ~HasRecipes(n)
             \/ \E i \in DOMAIN DictGet(recipes_by_item, n, <<>>) :
                   \A j \in DOMAIN DictGet(recipes_by_item, n, <<>>)[i] :
                      Lower(DictGet(recipes_by_item, n, <<>>)[i][j]) \in O}

RECURSIVE ProducibleFrom(_, _)
ProducibleFrom(O, S) ==
    IF ProducibleStep(O, S) = O THEN O
    ELSE ProducibleFrom(ProducibleStep(O, S), S)

Sufficient(x, S) == Lower(x) \in ProducibleFrom(Names, S)

CatalogIds == {clog_names[n] : n \in DOMAIN clog_names}

\* C5: the set find_minimum_clog_dependencies(x) returns is sufficient to
\* produce x and no strictly smaller set of catalog ids is.
C5_GlobalMinimality ==
    Ready => \A x \in Names :
                LET d == Ask(x).deps IN
                /\ Sufficient(x, d)
                /\ \A S \in SUBSET CatalogIds :
                      Sufficient(x, S) => Cardinality(S) >= Cardinality(d)

\* a's only recipe is [b] and b's only recipe is [a]
CycleOfTwo(a, b) ==
    /\ a # b
    /\ DictGet(recipes_by_item, a, <<>>) = << <<b>> >>
    /\ DictGet(recipes_by_item, b, <<>>) = << <<a>> >>

\* the same, with neither name in the catalog
TwoCycle(a, b) ==
    CycleOfTwo(a, b) /\ ~IsClogName(a) /\ ~IsClogName(b)

\* C6 as stated: every top-level find_minimum_clog_dependencies(x) returns
\* without raising, and on every two-cycle (a's only recipe is [b], b's only
\* recipe is [a]) the result for a is empty.
C6_CycleSafetyAnyTwoCycle ==
    Ready =>
        \A x \in QueryNames :
            LET r == Ask(x) IN
            /\ ~r.self.raised
            /\ (\E b \in Names : CycleOfTwo(Lower(x), b)) => r.deps = {}

\* C6 (amended): every top-level find_minimum_clog_dependencies(x) returns without a
\* RecursionError, its nesting never exceeds the number of item names, the
\* linker's own calls return as well, and on a two-cycle of names outside the
\* catalog the result is empty.
C6_CycleSafety ==
    Ready =>
        /\ \A x \in QueryNames :
              LET r == Ask(x) IN
              /\ ~r.self.raised
              /\ r.self.maxdepth <= Cardinality(Names)
              /\ (\E b \in Names : TwoCycle(Lower(x), b)) => r.deps = {}
        /\ ret.kind = "link" => ~ret.raised

C6_Witness ==
    /\ Ready
    /\ op[1] = QueryOp
    /\ \E b \in Names : TwoCycle(Lower(op[2]), b)
    /\ min_dep_cache[Lower(op[2])].deps = {}

\* C7: a second build_variant_relationships right after a first one leaves
\* recipes_by_item as the first run left it.
C7_LinkerIdempotent ==
    (Ready /\ op[1] = LinkOp) =>
        build_variant_relationships(Self, clog_items, all_ids)
            .self.recipes_by_item = recipes_by_item

\* C8: after linking, every variant v that a rule derives from a catalog
\* item c, with v in the name universe, v no catalog name and v without a
\* Recipe before linking, resolves to {id(c)}.
C8_VariantInjection ==
    (Ready /\ links >= 1) =>
        \A i \in DOMAIN clog_items : \A p \in DOMAIN VARIANT_PATTERNS :
            LET b == Lower(clog_items[i].name)
                v == VariantName(b, VARIANT_PATTERNS[p])
            IN  (/\ v # <<>> /\ v # b
                 /\ v \in DOMAIN all_ids
                 /\ ~IsClogName(v)
                 /\ ~DictHas(ret.before, v))
                => Ask(v).deps = {clog_items[i].id}

ListsBase(recipes, base_name) ==
    \A i \in DOMAIN recipes : InSeq(base_name, recipes[i])

\* C9 as stated: whenever a rule fires for base b and a variant v that already
\* has Recipes, every Recipe of v lists b once _process_variant_patterns(b)
\* has returned.
C9_BaseInEveryRecipe ==
    ret.kind = "link" =>
        \A i \in DOMAIN ret.events :
            ret.events[i].before # <<>> =>
                ListsBase(ret.events[i].final, ret.events[i].base)

\* C9 (amended): whenever a rule fires for base b and a variant v that already
\* has Recipes none of which lists b, every Recipe of v lists b once
\* _process_variant_patterns(b) has returned; when some Recipe of v already
\* lists b, the Recipes of v are left as they were.
C9_BaseInEveryRecipeUnlessListed ==
    ret.kind = "link" =>
        \A i \in DOMAIN ret.events :
            LET e == ret.events[i] IN
            e.before # <<>> =>
                IF HasBase(e.before, e.base)
                THEN e.final = e.before
                ELSE /\ ListsBase(e.final, e.base)
                     /\ Len(e.final) = Len(e.before)
                     /\ \A k \in DOMAIN e.before :
                           e.final[k] = Append(e.before[k], e.base)

C9_Witness ==
    /\ ret.kind = "link"
    /\ \E i \in DOMAIN ret.events :
          /\ ret.events[i].kind = "updated"
          /\ Len(ret.events[i].before) >= 2
          /\ ListsBase(ret.events[i].final, ret.events[i].base)

\* the rule of lines 641-654 on one logged evaluation
TieBreakOK(e) ==
    LET n == Len(e.evals) IN
    /\ n >= 1 /\ n <= e.total
    /\ e.idx \in 0..(n - 1)
    /\ e.deps = e.evals[e.idx + 1]
    /\ \A j \in 1..n :
          /\ Cardinality(e.evals[j]) >= Cardinality(e.deps)
          /\ j < e.idx + 1 => Cardinality(e.evals[j]) > Cardinality(e.deps)
    /\ \A j \in 1..(n - 1) : e.evals[j] # {}
    /\ n < e.total => e.evals[n] = {}

\* the set the resolver computes for alternative i of x once x has been asked
AlternativeDeps(x, i) ==
    find_clog_dependencies_for_recipe(
        Ask(x).self, DictGet(recipes_by_item, Lower(x), <<>>)[i],
        {Lower(x)}, 1).deps

C11_CacheInvalidatedOnMutation ==
    ret.kind = "link" =>
        /\ \A i \in DOMAIN ret.events :
              (ret.events[i].after # ret.events[i].before
               /\ ret.events[i].cached) => ~ret.events[i].cached_after
        /\ op[1] = LinkOp =>
              \A n \in DOMAIN min_dep_cache :
                  HasRecipes(n) => min_dep_cache[n].idx # -1

Written == output.kind = "output"

\* C12: in the output, every manual record keyed by n is the derivedItems
\* entry of lower-case n, and no id of a manual record's item_ids is in the
\* all_ids of a collectionLogItems entry.
C12_ManualOverridePrecedence ==
    Written =>
        \A i \in DOMAIN output.manual_recipes :
            LET item_name == output.manual_recipes[i].key
                recipe == output.manual_recipes[i].val
            IN  /\ DictHas(output.derivedItems, Lower(item_name))
                /\ DictGet(output.derivedItems, Lower(item_name), recipe) = recipe
                /\ \A k \in DOMAIN output.collectionLogItems :
                      \A j \in DOMAIN recipe.item_ids :
                          ~InSeq(recipe.item_ids[j],
                                 output.collectionLogItems[k].val.all_ids)

StrictlyAscending(s) == \A i, j \in DOMAIN s : i < j => s[i] < s[j]

\* C13: in the output, the all_ids list of every catalog id i contains i, is
\* sorted without duplicates, and holds no id of another catalog entry.
C13_AllIdsInvariant ==
    Written =>
        \A k \in DOMAIN output.collectionLogItems :
            LET i == output.collectionLogItems[k].key
                ids == output.collectionLogItems[k].val.all_ids
            IN  /\ InSeq(i, ids)
                /\ StrictlyAscending(ids)
                /\ \A j \in DOMAIN clog_items :
                      clog_items[j].id # i => ~InSeq(clog_items[j].id, ids)

\* the names a manual record is stored under
ManualKeys ==
    {Lower(output.manual_recipes[i].key) : i \in DOMAIN output.manual_recipes}

\* the non-catalog RecipeSet names the resolver reports as restricted
RestrictedNames ==
    {n \in {recipes_by_item[i].key : i \in DOMAIN recipes_by_item} :
        ~IsClogName(n) /\ Ask(n).deps # {}}

HasNoId(n) ==
    /\ n \notin DOMAIN primary_ids
    /\ n \in DOMAIN all_ids => all_ids[n] = <<>>

\* C14 as stated: in the output, every entry of derivedItems belongs to a
\* restricted name, lists exactly that name's minimum dependency set, and has
\* a non-empty item_ids list; restricted names without an id are omitted and
\* counted.
C14_DerivedItemsInvariant ==
    Written =>
        /\ \A k \in DOMAIN output.derivedItems :
              LET n == output.derivedItems[k].key
                  e == output.derivedItems[k].val
              IN  /\ n \in RestrictedNames
                  /\ e.clog_dependencies # <<>>
                  /\ e.clog_dependencies = ListOfSet(Ask(n).deps)
                  /\ e.item_ids # <<>>
        /\ \A n \in RestrictedNames :
              HasNoId(n) => ~DictHas(output.derivedItems, n)
        /\ output.stats.derived_items_without_ids
              = Cardinality({n \in RestrictedNames : HasNoId(n)})

\* C14 (amended): in the output, every entry of derivedItems that is not a
\* manual record belongs to a restricted name, carries that name, lists
\* exactly that name's minimum dependency set, and has a non-empty item_ids
\* list; a manual record is stored as it was written, whatever it holds;
\* restricted names without an id are omitted, unless a manual record names
\* them, and counted.
C14_AutoDerivedItemsInvariant ==
    Written =>
        /\ \A k \in DOMAIN output.derivedItems :
              LET n == output.derivedItems[k].key
                  e == output.derivedItems[k].val
              IN  IF n \in ManualKeys
                  THEN \E i \in DOMAIN output.manual_recipes :
                          /\ Lower(output.manual_recipes[i].key) = n
                          /\ e = output.manual_recipes[i].val
                  ELSE /\ n \in RestrictedNames
                       /\ e.name = n
                       /\ e.clog_dependencies # <<>>
                       /\ e.clog_dependencies = ListOfSet(Ask(n).deps)
                       /\ e.item_ids # <<>>
        /\ \A n \in RestrictedNames \ ManualKeys :
              HasNoId(n) => ~DictHas(output.derivedItems, n)
        /\ output.stats.derived_items_without_ids
              = Cardinality({n \in RestrictedNames : HasNoId(n)})

C14_Witness ==
    /\ Written
    /\ output.manual_recipes # <<>>
    /\ output.stats.derived_items_without_ids >= 1
    /\ \E k \in DOMAIN output.derivedItems :
          /\ output.derivedItems[k].key \notin ManualKeys
          /\ Len(output.derivedItems[k].val.item_ids) >= 2

\* the ids of the catalog-named materials of one alternative
CatalogIdsOf(recipe) ==
    {clog_names[recipe[j]] : j \in {j \in DOMAIN recipe : IsClogName(recipe[j])}}

\* the alternatives of n that list a catalog name, and the k-th of them
KeptAlternatives(n) ==
    {i \in DOMAIN DictGet(recipes_by_item, n, <<>>) :
        CatalogIdsOf(DictGet(recipes_by_item, n, <<>>)[i]) # {}}

KeptAlternative(n, k) ==
    CHOOSE i \in KeptAlternatives(n) :
        Cardinality({j \in KeptAlternatives(n) : j <= i}) = k

CraftingRecipesOK(n, r) ==
    IF KeptAlternatives(n) = {}
    THEN r = None
    ELSE /\ r # None /\ Len(r) = 1
         /\ Len(r[1]) = Cardinality(KeptAlternatives(n))
         /\ \A k \in DOMAIN r[1] :
               LET recipe == DictGet(recipes_by_item, n, <<>>)[KeptAlternative(n, k)]
               IN  /\ {r[1][k][j] : j \in DOMAIN r[1][k]} = CatalogIdsOf(recipe)
                   /\ Len(r[1][k]) = Cardinality({j \in DOMAIN recipe :
                                                     IsClogName(recipe[j])})
                   /\ \A p, q \in DOMAIN r[1][k] : p < q => r[1][k][p] <= r[1][k][q]

\* C15: find_clog_crafting_recipes(name) returns, in Recipe order, one sorted
\* list per alternative of name that lists a catalog name, holding the ids of
\* that alternative's catalog-named materials, and None when no alternative
\* is left or the name has no Recipe; craftable_from of the output is that
\* result.
C15_ClogCraftingRecipes ==
    /\ \A n \in Names : CraftingRecipesOK(n, find_clog_crafting_recipes(n, Self))
    /\ Written =>
          \A k \in DOMAIN output.collectionLogItems :
              CraftingRecipesOK(Lower(output.collectionLogItems[k].val.name),
                                output.collectionLogItems[k].val.craftable_from)

C15_Witness ==
    /\ Written
    /\ \E k \in DOMAIN output.collectionLogItems :
          LET n == Lower(output.collectionLogItems[k].val.name)
              r == output.collectionLogItems[k].val.craftable_from
          IN  r # None /\ Len(r[1]) < Len(DictGet(recipes_by_item, n, <<>>))
    /\ \E n \in Names :
          LET r == find_clog_crafting_recipes(n, Self)
          IN  r # None /\ \E k \in DOMAIN r[1] : Len(r[1][k]) >= 2
    /\ \E n \in Names :
          HasRecipes(n) /\ find_clog_crafting_recipes(n, Self) = None

Linked == ret.kind = "link" /\ op[1] = LinkOp

\* the Recipes of n are what they were before the linker ran
SameRecipes(n) ==
    /\ DictHas(recipes_by_item, n) <=> DictHas(ret.before, n)
    /\ DictGet(recipes_by_item, n, <<>>) = DictGet(ret.before, n, <<>>)

\* the names the linker ran its rules for, in both phases
BaseNames ==
    {Lower(clog_items[i].name) : i \in DOMAIN clog_items}
        \cup {ret.bases[i] : i \in DOMAIN ret.bases}

\* C16 as stated: after build_variant_relationships, every name that is a
\* catalog name, is absent from all_ids, or was used as a base has the
\* Recipes it had before.
C16_LinkerFrame ==
    Linked =>
        \A n \in Names :
            (IsClogName(n) \/ n \notin DOMAIN all_ids \/ n \in BaseNames)
                => SameRecipes(n)

\* C16 (amended): after build_variant_relationships, every name that is a
\* catalog name or is absent from all_ids has the Recipes it had before, and
\* every rule that fired changed a variant that is in all_ids, is no catalog
\* name and differs from the base the rule was run for; a name used as a
\* base in Phase 2 may still be changed as the variant of another base.
C16_LinkerFrameOfRules ==
    Linked =>
        /\ \A n \in Names :
              (IsClogName(n) \/ n \notin DOMAIN all_ids) => SameRecipes(n)
        /\ \A n \in Names :
              ~SameRecipes(n) =>
                  \E i \in DOMAIN ret.events :
                      ret.events[i].variant = n /\ ret.events[i].kind # "kept"
        /\ \A i \in DOMAIN ret.events :
              /\ ret.events[i].variant # ret.events[i].base
              /\ ret.events[i].variant \in DOMAIN all_ids
              /\ ~IsClogName(ret.events[i].variant)
              /\ ret.events[i].base \in BaseNames

C16_Witness ==
    /\ Linked
    /\ \E n \in Names : IsClogName(n) /\ HasRecipes(n)
    /\ \E i \in DOMAIN ret.events : ret.events[i].kind # "kept"
    /\ \E b \in BaseNames : \E i \in DOMAIN VARIANT_PATTERNS :
          LET v == VariantName(b, VARIANT_PATTERNS[i])
          IN  v \in Names /\ v \notin DOMAIN all_ids /\ ~HasRecipes(v)

\* the RecipeSet at the end of Phase 1 of the linker run that ret describes
EndOfPhase1 ==
    Phase1Loop(Resolver(clog_names, ret.before, <<>>), clog_items, all_ids, 1)
        .recipes_by_item

\* the minimum dependency set of n on a given graph, on a resolver with an
\* empty cache
FreshDeps(recipes, n) ==
    find_minimum_clog_dependencies(Resolver(clog_names, recipes, <<>>), n, {}, 1)
        .deps

\* C17: the names used as bases in Phase 2 are exactly the non-catalog
\* RecipeSet keys whose minimum dependency set on the graph at the end of
\* Phase 1 is non-empty.
C17_Phase2BaseSelection ==
    Linked =>
        {ret.bases[i] : i \in DOMAIN ret.bases}
            = {n \in {EndOfPhase1[i].key : i \in DOMAIN EndOfPhase1} :
                  ~IsClogName(n) /\ FreshDeps(EndOfPhase1, n) # {}}

\* the graph and the catalog index of a resolver are those of the state
SameGraph(self) ==
    /\ self.recipes_by_item = recipes_by_item
    /\ self.clog_names = clog_names

\* C18: find_minimum_clog_dependencies and get_all_recipes_with_deps, asked
\* for any name in any state of the resolver, return a resolver with the
\* recipes_by_item (keys, Recipes, material order) and catalog index it had,
\* and generate_output_json (with the find_clog_crafting_recipes calls it
\* makes) leaves both as it found them; only _min_dep_cache may differ.
C18_ReadOnlyQueries ==
    /\ phase # "new" =>
          \A x \in QueryNames :
              /\ SameGraph(Ask(x).self)
              /\ SameGraph(get_all_recipes_with_deps(Self, x).self)
    /\ Written =>
          /\ recipes_by_item = output.before.recipes_by_item
          /\ clog_names = output.before.clog_names

C18_Witness ==
    /\ Written
    /\ min_dep_cache # output.before.cache
    /\ \E n \in DOMAIN min_dep_cache : ~HasRecipes(n) /\ ~IsClogName(n)
    /\ \E x \in QueryNames :
          ~HasRecipes(x) /\ Lower(x) \notin DOMAIN min_dep_cache
          /\ Lower(x) \in DOMAIN Ask(x).self.cache

\* C19: with no linking in between, a top-level
\* find_minimum_clog_dependencies(x) returns, after any top-level queries
\* for other names, what a resolver with an empty cache returns for x.
C19_QueryOrderIndependence ==
    (Ready /\ links = 0) =>
        \A x \in QueryNames : Ask(x).deps = FreshDeps(recipes_by_item, x)

\* C20: after build_variant_relationships, find_minimum_clog_dependencies(x)
\* returns for every name x what a resolver with an empty cache returns for
\* x on the final RecipeSet, and generate_output_json lists as derived
\* exactly the names with ids that are restricted on the final graph.
C20_PostLinkCacheCoherence ==
    /\ Linked =>
          \A x \in QueryNames : Ask(x).deps = FreshDeps(recipes_by_item, x)
    /\ (Written /\ links >= 1 /\ output.manual_recipes = <<>>) =>
          \A n \in {recipes_by_item[i].key : i \in DOMAIN recipes_by_item} :
              (~IsClogName(n) /\ ~HasNoId(n)) =>
                  /\ DictHas(output.derivedItems, n)
                        <=> FreshDeps(recipes_by_item, n) # {}
                  /\ DictHas(output.derivedItems, n) =>
                        DictGet(output.derivedItems, n, <<>>).clog_dependencies
                            = ListOfSet(FreshDeps(recipes_by_item, n))

\* the names one Recipe step away from a name of S
MaterialsOf(S) ==
    UNION {UNION {{r[i][j] : j \in DOMAIN r[i]} : i \in DOMAIN r} :
              r \in {DictGet(recipes_by_item, n, <<>>) : n \in S}}

RECURSIVE ReachableFrom(_)
\* the names reachable from S by following Recipe materials, S included
ReachableFrom(S) ==
    IF MaterialsOf(S) \subseteq S THEN S ELSE ReachableFrom(S \cup MaterialsOf(S))

\* the ids of the catalog names that are n or reachable from n
ReachableIds(n) ==
    {clog_names[m] : m \in {m \in ReachableFrom({n}) : IsClogName(m)}}

\* C21: in every resolver state, every id that
\* find_minimum_clog_dependencies(x) returns, and every id of a
\* _min_dep_cache entry (those the call leaves behind included), is the id of
\* a catalog name that is the entry's name or reachable from it through
\* Recipe materials in the current RecipeSet; so the result is empty when no
\* catalog name is reachable.
C21_ResultSetSound ==
    phase # "new" =>
        /\ \A n \in DOMAIN min_dep_cache :
              min_dep_cache[n].deps \subseteq ReachableIds(n)
        /\ \A x \in QueryNames :
              LET r == Ask(x) IN
              /\ r.deps \subseteq ReachableIds(Lower(x))
              /\ \A n \in DOMAIN r.self.cache :
                    r.self.cache[n].deps \subseteq ReachableIds(n)

C21_Witness ==
    /\ Ready /\ links >= 1 /\ calls >= 1
    /\ \E n \in DOMAIN min_dep_cache :
          /\ ~IsClogName(n)
          /\ min_dep_cache[n].deps # {}
          /\ min_dep_cache[n].deps # ReachableIds(n)
    /\ \E x \in Names :
          /\ HasRecipes(x) /\ ~IsClogName(x)
          /\ ReachableIds(x) = {}
          /\ ReachableFrom({x}) # {x}
          /\ Ask(x).deps = {}

====
